---------------------------- MODULE Spec2Model ----------------------------
(***************************************************************************)
(* LlamaScanner (src/LlamaScanner.py): discovery, inventory, per-host      *)
(* sequential / cross-host parallel benchmarking, and the routing table.   *)
(*                                                                         *)
(* Python values are modelled as follows.                                  *)
(*   - a dict is a sequence of <<key, value>> pairs in insertion order     *)
(*     with unique keys (DictSet is d[k] = v);                             *)
(*   - a float throughput sample is the exact rational <<num, den>> it     *)
(*     stands for, kept in lowest terms;                                   *)
(*   - the value benchmarkSingleModel returns is a record: Str(s) for the  *)
(*     two failure strings, Float(c) for round(mean, 2), c in hundredths.  *)
(***************************************************************************)
EXTENDS Integers, Sequences, FiniteSets, TLC

(***************************************************************************)
(* Bounds of the model.                                                    *)
(***************************************************************************)
MaxRuns == 2

MaxLiveRuns == 2

MaxNodes == 3

MaxMainRuns == 1

(* The addresses and model identifiers the inputs are drawn from, and the  *)
(* worker ceilings (below and at the number of hosts).                     *)
HostOrder == <<"100.64.0.1", "100.64.0.2">>
Hosts == {HostOrder[i] : i \in 1..Len(HostOrder)}
Models == {"llama3", "phi3"}
WorkerChoices == {1, 2}

(* Lexicographic rank of the model identifiers ("llama3" < "phi3"). *)
ModelRank(m) == IF m = "llama3" THEN 1 ELSE 2

(* Nanoseconds per second: the 1e9 of line 141. *)
NsPerSec == 1000000000

VARIABLES
    args,        \* the parsed command line: [runs, workers], and in main
                 \* also [output, proxy]: whether each path was given
    tailscale,   \* getTailscaleIps: the query's outcome and the loop's state
    interrupted, \* a KeyboardInterrupt was raised in the main thread
    files,       \* the files main has written: [proxy, routing]
    stage,       \* where main stands
    candidates,  \* findActiveHosts: the addresses getTailscaleIps returned
    probeFutures,\* findActiveHosts: the submitted probes, one record each
    activeHosts, \* findActiveHosts: the list being built
    hosts,       \* main: findActiveHosts' return value
    tagFutures,  \* mapNetwork: the submitted listings, one record each
    inventory,   \* dict ip -> model list (mapNetwork's result)
    futures,     \* runRobustBenchmarks: the submitted tasks, one record each
    inflight,    \* generation requests sent and not yet returned or timed out
    final_stats, \* runRobustBenchmarks: the dict being merged
    stats,       \* runRobustBenchmarks' return value
    collected,   \* runRobustBenchmarks: the futures as_completed has yielded
    df,          \* generateRoutingDataFrame's return value
    obs          \* per task, what an observer of the network and the clock saw

(* The state of discovery and inventory, and of the benchmark stage. *)
discVars == <<candidates, probeFutures, activeHosts, hosts, tagFutures>>

benchVars == <<futures, inflight, final_stats, collected, stats, df, obs>>

mainVars == <<tailscale, interrupted, files>>

vars == <<args, stage, inventory, discVars, benchVars, mainVars>>

(* getTailscaleIps not called; nothing written yet (a written file is a    *)
(* one-element sequence holding its content).                              *)
NoQuery == [pc |-> "idle", query |-> <<>>, ips |-> {}, n |-> 0,
            error |-> "none"]

NoFiles == [proxy |-> <<>>, routing |-> <<>>]

-----------------------------------------------------------------------------
(***************************************************************************)
(* Sequences and dicts.                                                    *)
(***************************************************************************)
Range(s) == {s[i] : i \in 1..Len(s)}

NoDup(s) == \A i, j \in 1..Len(s) : i # j => s[i] # s[j]

SeqsUpTo(S, n) == UNION {[1..m -> S] : m \in 0..n}

DictKeys(d) == {d[i][1] : i \in 1..Len(d)}

DictHas(d, key) == \E i \in 1..Len(d) : d[i][1] = key

DictGet(d, key) == d[CHOOSE i \in 1..Len(d) : d[i][1] = key][2]

(* d[key] = val: an existing key keeps its place, a new one goes last. *)
DictSet(d, key, val) ==
    IF DictHas(d, key)
    THEN [i \in 1..Len(d) |-> IF d[i][1] = key THEN <<key, val>> ELSE d[i]]
    ELSE Append(d, <<key, val>>)

(***************************************************************************)
(* Exact rationals <<num, den>>, den > 0, in lowest terms.  An             *)
(* intermediate value x is bound by x \in {e}, so that it is evaluated     *)
(* once.                                                                   *)
(***************************************************************************)
RECURSIVE GCD(_, _)
GCD(a, b) ==
    IF b = 0 THEN a ELSE CHOOSE g \in {GCD(b, r) : r \in {a % b}} : TRUE

Abs(x) == IF x < 0 THEN -x ELSE x

Norm(q) ==
    LET g == GCD(Abs(q[1]), q[2])
    IN  <<q[1] \div g, q[2] \div g>>

RAdd(p, q) ==
    CHOOSE v \in {Norm(x) : x \in {<<p[1] * q[2] + q[1] * p[2],
                                      p[2] * q[2]>>}} : TRUE

RECURSIVE RSum(_)
RSum(s) ==
    IF s = <<>> THEN <<0, 1>>
    ELSE CHOOSE v \in {RAdd(s[1], t) : t \in {RSum(Tail(s))}} : TRUE

RMean(s) ==
    CHOOSE v \in {Norm(<<t[1], t[2] * Len(s)>>) : t \in {RSum(s)}} : TRUE

(* round(q, 2) in hundredths: the nearest hundredth, a tie going to the    *)
(* even one, as Python's round does.                                       *)
Round2(q) ==
    LET n == q[1] * 100
        f == n \div q[2]
        r == n % q[2]
    IN  IF 2 * r < q[2] THEN f
        ELSE IF 2 * r > q[2] THEN f + 1
        ELSE IF f % 2 = 0 THEN f ELSE f + 1

(***************************************************************************)
(* Python values benchmarkSingleModel returns.                             *)
(***************************************************************************)
Str(s) == [type |-> "str", s |-> s, c |-> 0]

Float(c) == [type |-> "float", s |-> "", c |-> c]

FailedWarmup == Str("Failed (Warmup)")

Failed == Str("Failed")

-----------------------------------------------------------------------------
(***************************************************************************)
(* What requests.post can give back: an exception (a timeout, a connection *)
(* error) or an HTTP response with a status, a body that parses as JSON or *)
(* not, and the keys the JSON object holds.                                *)
(***************************************************************************)
Raised(kind) ==
    [kind |-> kind, status |-> 0, json |-> FALSE, keys |-> {},
     eval_count |-> 0, eval_duration |-> 0]

Http(status, json, keys, count, dur) ==
    [kind |-> "http", status |-> status, json |-> json, keys |-> keys,
     eval_count |-> count, eval_duration |-> dur]

BothKeys == {"eval_count", "eval_duration"}

Responses ==
    { Raised("Timeout"),
      Raised("ConnectionError"),
      Http(500, TRUE, {}, 0, 0),
      Http(200, FALSE, {}, 0, 0),
      Http(200, TRUE, {"eval_count"}, 10, 0),
      Http(200, TRUE, {"eval_duration"}, 0, 1500000000),
      Http(200, TRUE, BothKeys, 10, 0),
      Http(200, TRUE, BothKeys, 0, 1500000000),
      Http(200, TRUE, BothKeys, 10, 1500000000) }

(***************************************************************************)
(* benchmarkSingleModel                                                    *)
(***************************************************************************)
(* Lines 129-132: the warm-up fails exactly when requests.post raises. *)
WarmupFailedNever(resp) == FALSE

WarmupFailedOnStatus(resp) == resp.kind # "http" \/ resp.status # 200

WarmupFailed(resp) == resp.kind # "http"

(* Line 141: eval_count / (eval_duration / 1e9). *)
Tps(count, dur) ==
    LET g == GCD(NsPerSec, dur)
    IN  Norm(<<count * (NsPerSec \div g), dur \div g>>)

(* Lines 136-144: the samples one measured response adds (none or one). *)
SampleOf(resp) ==
    IF resp.kind # "http" THEN <<>>
    ELSE IF resp.status # 200 THEN <<>>
    ELSE IF ~resp.json THEN <<>>
    ELSE LET dur == IF "eval_duration" \in resp.keys
                    THEN resp.eval_duration ELSE 0
         IN  IF dur > 0
             THEN IF "eval_count" \in resp.keys
                  THEN <<Tps(resp.eval_count, dur)>>
                  ELSE <<>>
             ELSE <<>>

(* Line 135: for _ in range(args.runs), after `run` iterations. *)
MoreRuns(run, runs) == run < runs

(* Lines 135-144: whatever the response was (a sample, no sample, an       *)
(* exception swallowed by `except: pass`), the loop goes to the next       *)
(* iteration.                                                              *)
NextRunAbortingOnError(run, runs, resp) ==
    IF resp.kind # "http" THEN runs ELSE run + 1

NextRun(run, runs, resp) == run + 1

(* Lines 146-149. *)
BenchmarkResultOfSum(samples) ==
    IF samples = <<>> THEN Failed ELSE Float(Round2(RSum(samples)))

BenchmarkResult(samples) ==
    IF samples = <<>> THEN Failed ELSE Float(Round2(RMean(samples)))

(***************************************************************************)
(* processHostBenchmarks                                                   *)
(***************************************************************************)
(* Line 159: results[model] = tps, for a number and for a failure marker. *)
StoreTpsOnSuccess(results, model, tps) ==
    IF tps.type = "str" THEN results ELSE DictSet(results, model, tps)

StoreTps(results, model, tps) == DictSet(results, model, tps)

(* Lines 159-160: after results[model] = tps comes time.sleep(cooldown),   *)
(* whatever tps is.                                                        *)
PcAfterModelSkippingFailures(tps) ==
    IF tps.type = "str" THEN "loop" ELSE "sleep"

PcAfterModelHangingOnFailure(tps) ==
    IF tps.type = "str" THEN "hung" ELSE "sleep"

PcAfterModel(tps) == "sleep"

NewTask(ip, mods) ==
    [ip |-> ip, mods |-> mods, state |-> "PENDING", pc |-> "loop", k |-> 0,
     run |-> 0, samples |-> <<>>, results |-> <<>>]

(* What was seen of a task: the outcome of the warm-up of the model it is  *)
(* on (the exception's kind or "http", and the status), the measured       *)
(* requests sent for that model, how many of their responses held a usable *)
(* measurement, and the cooldown sleeps the task has completed.            *)
NewObs == [warm |-> "none", status |-> 0, sent |-> 0, valid |-> 0, slept |-> 0]

(* Line 171: one task per item of the inventory. *)
RECURSIVE SubmitTasksPerModel(_)
SubmitTasksPerModel(inv) ==
    IF inv = <<>> THEN <<>>
    ELSE [j \in 1..Len(inv[1][2]) |-> NewTask(inv[1][1], <<inv[1][2][j]>>)]
         \o SubmitTasksPerModel(Tail(inv))

SubmitTasks(inv) == [i \in 1..Len(inv) |-> NewTask(inv[i][1], inv[i][2])]


(* The generation request a task has on the wire. *)
Request(i, kind) ==
    [task |-> i, ip |-> futures[i].ip, model |-> futures[i].mods[futures[i].k],
     kind |-> kind]

(* A measured response that carries a usable measurement: status 200, a    *)
(* JSON body with eval_count and a strictly positive eval_duration.        *)
UsableResponse(resp) ==
    /\ resp.kind = "http"
    /\ resp.status = 200
    /\ resp.json
    /\ resp.keys = BothKeys
    /\ resp.eval_duration > 0

(* The worker pool of line 170: the queue is first in, first out, and at   *)
(* most args.workers tasks run.                                            *)
Running == {i \in 1..Len(futures) : futures[i].state = "RUNNING"}

(* Line 170: max_workers=args.workers: a queued task is taken only by one  *)
(* of at most `workers` threads, each running one task at a time.          *)
WorkerFreeAlways(running, workers) == TRUE

WorkerFree(running, workers) == running < workers

StartTask(i) ==
    /\ stage = "collect"
    /\ futures[i].state = "PENDING"
    /\ \A j \in 1..(i - 1) : futures[j].state # "PENDING"
    /\ WorkerFree(Cardinality(Running), args.workers)
    /\ futures' = [futures EXCEPT ![i].state = "RUNNING"]
    /\ UNCHANGED <<args, stage, inventory, inflight, final_stats, collected,
                   stats, df, obs>>
    /\ UNCHANGED <<discVars, mainVars>>

(* Lines 157-158, 129-130: the loop takes the next model and sends its     *)
(* warm-up request.                                                        *)
SendWarmup(i) ==
    /\ futures[i].state = "RUNNING"
    /\ futures[i].pc = "loop"
    /\ futures[i].k < Len(futures[i].mods)
    /\ futures' = [futures EXCEPT ![i].k = @ + 1, ![i].pc = "warmup",
                                  ![i].run = 0, ![i].samples = <<>>]
    /\ inflight' = inflight \cup
           {[task |-> i, ip |-> futures[i].ip,
             model |-> futures[i].mods[futures[i].k + 1], kind |-> "warmup"]}
    /\ UNCHANGED <<args, stage, inventory, final_stats, collected, stats, df,
                   obs>>
    /\ UNCHANGED <<discVars, mainVars>>

(* Lines 130-134, 159: the warm-up returns or raises. *)
WarmupReturns(i, resp) ==
    /\ futures[i].pc = "warmup"
    /\ inflight' = inflight \ {Request(i, "warmup")}
    /\ obs' = [obs EXCEPT ![i].warm = resp.kind, ![i].status = resp.status]
    /\ IF WarmupFailed(resp)
       THEN futures' = [futures EXCEPT
                ![i].results = StoreTps(@, futures[i].mods[futures[i].k],
                                        FailedWarmup),
                ![i].pc = PcAfterModel(FailedWarmup)]
       ELSE futures' = [futures EXCEPT ![i].pc = "measure"]
    /\ UNCHANGED <<args, stage, inventory, final_stats, collected, stats, df>>
    /\ UNCHANGED <<discVars, mainVars>>

(* Lines 135-137: one more iteration sends a measured request. *)
SendRun(i) ==
    /\ futures[i].pc = "measure"
    /\ MoreRuns(futures[i].run, args.runs)
    /\ futures' = [futures EXCEPT ![i].pc = "run"]
    /\ inflight' = inflight \cup {Request(i, "run")}
    /\ obs' = [obs EXCEPT ![i].sent = @ + 1]
    /\ UNCHANGED <<args, stage, inventory, final_stats, collected, stats, df>>
    /\ UNCHANGED <<discVars, mainVars>>

(* Lines 137-144: the measured request returns or raises. *)
RunReturns(i, resp) ==
    /\ futures[i].pc = "run"
    /\ inflight' = inflight \ {Request(i, "run")}
    /\ futures' = [futures EXCEPT ![i].samples = @ \o SampleOf(resp),
                                  ![i].run = NextRun(@, args.runs, resp),
                                  ![i].pc = "measure"]
    /\ obs' = [obs EXCEPT ![i].valid = IF UsableResponse(resp) THEN @ + 1 ELSE @]
    /\ UNCHANGED <<args, stage, inventory, final_stats, collected, stats, df>>
    /\ UNCHANGED <<discVars, mainVars>>

(* Lines 146-149, 159: the runs are over; the model's result is stored. *)
StoreResult(i) ==
    /\ futures[i].pc = "measure"
    /\ ~MoreRuns(futures[i].run, args.runs)
    /\ LET tps == BenchmarkResult(futures[i].samples)
       IN  futures' = [futures EXCEPT
               ![i].results = StoreTps(@, futures[i].mods[futures[i].k], tps),
               ![i].pc = PcAfterModel(tps)]
    /\ UNCHANGED <<args, stage, inventory, inflight, final_stats, collected,
                   stats, df, obs>>
    /\ UNCHANGED <<discVars, mainVars>>

(* Line 160: time.sleep(args.cooldown) has elapsed. *)
Cooldown(i) ==
    /\ futures[i].pc = "sleep"
    /\ futures' = [futures EXCEPT ![i].pc = "loop"]
    /\ obs' = [obs EXCEPT ![i] = [NewObs EXCEPT !.slept = obs[i].slept + 1]]
    /\ UNCHANGED <<args, stage, inventory, inflight, final_stats, collected,
                   stats, df>>
    /\ UNCHANGED <<discVars, mainVars>>

(* Line 161: the models are exhausted; the task returns (ip, results). *)
TaskReturns(i) ==
    /\ futures[i].state = "RUNNING"
    /\ futures[i].pc = "loop"
    /\ futures[i].k = Len(futures[i].mods)
    /\ futures' = [futures EXCEPT ![i].state = "FINISHED", ![i].pc = "returned"]
    /\ UNCHANGED <<args, stage, inventory, inflight, final_stats, collected,
                   stats, df, obs>>
    /\ UNCHANGED <<discVars, mainVars>>

(***************************************************************************)
(* runRobustBenchmarks                                                     *)
(***************************************************************************)
(* Lines 168-171. *)
Submit ==
    /\ stage = "bench"
    /\ ~interrupted
    /\ futures' = SubmitTasks(inventory)
    /\ obs' = [i \in 1..Len(SubmitTasks(inventory)) |-> NewObs]
    /\ final_stats' = <<>>
    /\ collected' = {}
    /\ stage' = "collect"
    /\ UNCHANGED <<args, inventory, inflight, stats, df>>
    /\ UNCHANGED <<discVars, mainVars>>

(* Line 172: as_completed yields a future only once it has finished. *)
AsCompletedYieldsStarted(state) == state # "PENDING"

AsCompletedYields(state) == state = "FINISHED"

(* Lines 172-174: as_completed yields a finished future. *)
Collect(i) ==
    /\ stage = "collect"
    /\ ~interrupted
    /\ AsCompletedYields(futures[i].state)
    /\ i \notin collected
    /\ collected' = collected \cup {i}
    /\ final_stats' = DictSet(final_stats, futures[i].ip, futures[i].results)
    /\ UNCHANGED <<args, stage, inventory, futures, inflight, stats, df, obs>>
    /\ UNCHANGED <<discVars, mainVars>>

(* Line 176: every future was yielded. *)
ReturnStats ==
    /\ stage = "collect"
    /\ ~interrupted
    /\ collected = 1..Len(futures)
    /\ stats' = final_stats
    /\ stage' = "route"
    /\ UNCHANGED <<args, inventory, futures, inflight, final_stats, collected,
                   df, obs>>
    /\ UNCHANGED <<discVars, mainVars>>


(***************************************************************************)
(* generateRoutingDataFrame                                                *)
(***************************************************************************)
(* Line 185: isinstance(speed, (float, int)). *)
IsNumberOrWarmupMarker(speed) == speed # Failed

IsNumber(speed) == speed.type \in {"float", "int"}

(* Lines 186-191. *)
Row(ip, model, speed) ==
    [model |-> model, route |-> <<"ollama/", model>>,
     ip |-> <<"http://", ip, ":11434">>, tps |-> speed.c]

(* Lines 184-191: the rows of one host, in the order of its dict. *)
RECURSIVE HostRows(_, _)
HostRows(ip, models) ==
    IF models = <<>> THEN <<>>
    ELSE (IF IsNumber(models[1][2])
          THEN <<Row(ip, models[1][1], models[1][2])>>
          ELSE <<>>) \o HostRows(ip, Tail(models))

(* Lines 182-191. *)
RECURSIVE Rows(_)
Rows(st) ==
    IF st = <<>> THEN <<>>
    ELSE HostRows(st[1][1], st[1][2]) \o Rows(Tail(st))

(* Line 195: ascending=[True, False]: the second key, tps, descends. *)
TpsBeforeAscending(a, b) == a < b

TpsBefore(a, b) == a > b

(* Line 195: by=["model", "tps"]: row a sorts strictly before row b. *)
RowBefore(a, b) ==
    \/ ModelRank(a.model) < ModelRank(b.model)
    \/ a.model = b.model /\ TpsBefore(a.tps, b.tps)

(* Line 195: sort_values, as a stable insertion sort. *)
RECURSIVE Insert(_, _)
Insert(sorted, row) ==
    IF sorted = <<>> THEN <<row>>
    ELSE IF RowBefore(row, sorted[1]) THEN <<row>> \o sorted
    ELSE <<sorted[1]>> \o Insert(Tail(sorted), row)

RECURSIVE SortValues(_)
SortValues(rows) ==
    IF rows = <<>> THEN <<>>
    ELSE Insert(SortValues(SubSeq(rows, 1, Len(rows) - 1)), rows[Len(rows)])

(* Lines 180-197. *)
generateRoutingDataFrame(st) == SortValues(Rows(st))

(* Line 247. *)
GenerateRouting ==
    /\ stage = "route"
    /\ ~interrupted
    /\ df' = generateRoutingDataFrame(stats)
    /\ stage' = "done"
    /\ UNCHANGED <<args, inventory, futures, inflight, final_stats, collected,
                   stats, obs>>
    /\ UNCHANGED <<discVars, mainVars>>

-----------------------------------------------------------------------------
(***************************************************************************)
(* The benchmark stage, from every inventory mapNetwork can return: a dict *)
(* of distinct hosts, each with a non-empty list of distinct models.  The  *)
(* variables of discovery play no part in it and stay empty.               *)
(***************************************************************************)
(* The code never compares two addresses, so the hosts are taken in one    *)
(* order; only the first host may list more than one model.                *)
ModelLists == {l \in SeqsUpTo(Models, Cardinality(Models)) : l # <<>> /\ NoDup(l)}

Inventories ==
    {inv \in SeqsUpTo(Hosts \X ModelLists, Len(HostOrder)) :
        /\ inv # <<>>
        /\ \A i \in 1..Len(inv) : inv[i][1] = HostOrder[i]
        /\ \A i \in 2..Len(inv) : Len(inv[i][2]) = 1}

Init ==
    /\ args \in [runs : 0..MaxRuns, workers : WorkerChoices]
    /\ inventory \in Inventories
    /\ stage = "bench"
    /\ tailscale = NoQuery
    /\ interrupted = FALSE
    /\ files = NoFiles
    /\ candidates = <<>>
    /\ probeFutures = <<>>
    /\ activeHosts = <<>>
    /\ hosts = <<>>
    /\ tagFutures = <<>>
    /\ futures = <<>>
    /\ inflight = {}
    /\ final_stats = <<>>
    /\ collected = {}
    /\ stats = <<>>
    /\ df = <<>>
    /\ obs = <<>>

Next ==
    \/ Submit
    \/ \E i \in 1..Len(futures) : StartTask(i)
    \/ \E i \in 1..Len(futures) : SendWarmup(i)
    \/ \E i \in 1..Len(futures), resp \in Responses : WarmupReturns(i, resp)
    \/ \E i \in 1..Len(futures) : SendRun(i)
    \/ \E i \in 1..Len(futures), resp \in Responses : RunReturns(i, resp)
    \/ \E i \in 1..Len(futures) : StoreResult(i)
    \/ \E i \in 1..Len(futures) : Cooldown(i)
    \/ \E i \in 1..Len(futures) : TaskReturns(i)
    \/ \E i \in 1..Len(futures) : Collect(i)
    \/ ReturnStats
    \/ GenerateRouting

Spec == Init /\ [][Next]_vars

(***************************************************************************)
(* The same program when every request sent is eventually answered (by a   *)
(* response, an error or the timeout of lines 131 and 137) and every       *)
(* thread that can take a step eventually takes one.  It is checked on two *)
(* hosts serving one model each, with at most MaxLiveRuns measured runs.   *)
(***************************************************************************)
InitLive ==
    /\ Init
    /\ args.runs <= MaxLiveRuns
    /\ Len(inventory) = Len(HostOrder)
    /\ \A e \in 1..Len(inventory) : Len(inventory[e][2]) = 1

SpecLive == InitLive /\ [][Next]_vars /\ WF_vars(Next)


-----------------------------------------------------------------------------
(***************************************************************************)
(* The claims about the benchmark stage and the routing table.             *)
(***************************************************************************)
Tasks == 1..Len(futures)

(* The model a running task is on, and the result stored for it. *)
CurrentModel(i) == futures[i].mods[futures[i].k]

CurrentResult(i) == DictGet(futures[i].results, CurrentModel(i))

OnTheWire(h) == {r \in inflight : r.ip = h}

(* runRobustBenchmarks has returned. *)
Returned == stage \in {"route", "done"}

(* C1: at every moment and for every host, at most one generation request  *)
(* (warm-up or measured run) is in flight to that host.                    *)
C1_OneRequestPerHost == \A h \in Hosts : Cardinality(OnTheWire(h)) <= 1

(* C1 witness: two hosts have a request in flight at once, one of them the *)
(* warm-up of a host's second model, whose first model had measured runs.  *)
C1_Witness ==
    /\ Cardinality(inflight) = 2
    /\ args.runs >= 1
    /\ \E r \in inflight :
         /\ r.kind = "warmup"
         /\ futures[r.task].k = 2
         /\ futures[r.task].results[1][2] # FailedWarmup

(* The (host, model) pairs of a dict of lists and of a dict of dicts. *)
InventoryPairs(inv) ==
    UNION {{<<inv[i][1], inv[i][2][j]>> : j \in 1..Len(inv[i][2])} :
           i \in 1..Len(inv)}

StatsPairs(st) ==
    UNION {{<<st[i][1], st[i][2][j][1]>> : j \in 1..Len(st[i][2])} :
           i \in 1..Len(st)}

(* The rows of a dict of dicts, one <<ip, model, value>> per stored entry. *)
StatsEntries(st) ==
    UNION {{<<st[i][1], st[i][2][j][1], st[i][2][j][2]>> :
            j \in 1..Len(st[i][2])} : i \in 1..Len(st)}

RECURSIVE TotalLen(_)
TotalLen(st) ==
    IF st = <<>> THEN 0 ELSE Len(st[1][2]) + TotalLen(Tail(st))

IsMarker(v) == v \in {Failed, FailedWarmup}

(* C2: when runRobustBenchmarks returns, its result holds exactly one      *)
(* entry for every (host, model) pair of the inventory and none for any    *)
(* other pair; a host whose every model failed is still a key.             *)
C2_OneEntryPerPair ==
    Returned =>
        /\ StatsPairs(stats) = InventoryPairs(inventory)
        /\ TotalLen(stats) = Cardinality(InventoryPairs(inventory))
        /\ DictKeys(stats) = DictKeys(inventory)
        /\ Len(stats) = Len(inventory)

(* C2 witness: the result of a two-host inventory in which one host failed *)
(* on both of its models, once at the warm-up and once in the runs, and    *)
(* the other host has a number.                                            *)
C2_Witness ==
    /\ Returned
    /\ Len(stats) = 2
    /\ \E i \in 1..Len(stats) :
         /\ Len(stats[i][2]) = 2
         /\ {stats[i][2][j][2] : j \in 1..2} = {Failed, FailedWarmup}
    /\ \E e \in StatsEntries(stats) : ~IsMarker(e[3])

(* The warm-up of the model task i is on raised (a timeout, a connection   *)
(* error); it returned a response.                                         *)
WarmupRaised(i) == obs[i].warm \in {"Timeout", "ConnectionError"}

WarmupReturned(i) == obs[i].warm = "http"

RunsOnTheWire(i) == {r \in inflight : r.task = i /\ r.kind = "run"}

(* C3: if the warm-up of a pair fails or times out, the pair's result is   *)
(* "Failed (Warmup)" and no measured request is issued for the pair.       *)
C3_WarmupFailureIssuesNoRuns ==
    \A i \in Tasks :
        WarmupRaised(i) =>
            /\ obs[i].sent = 0
            /\ RunsOnTheWire(i) = {}
            /\ futures[i].pc = "sleep"
            /\ DictHas(futures[i].results, CurrentModel(i))
            /\ CurrentResult(i) = FailedWarmup

(* C3 witness: a warm-up timed out with the largest run count configured. *)
C3_Witness ==
    \E i \in Tasks :
        /\ obs[i].warm = "Timeout"
        /\ args.runs = MaxRuns
        /\ obs[i].sent = 0
        /\ CurrentResult(i) = FailedWarmup

(* C4: after a warm-up that succeeded exactly `runs` measured requests are *)
(* issued, one after another, whatever the runs return.                    *)
C4_ExactlyRunsRequests ==
    \A i \in Tasks :
        WarmupReturned(i) =>
            /\ obs[i].sent <= args.runs
            /\ Cardinality(RunsOnTheWire(i)) <= 1
            /\ futures[i].pc = "sleep" => obs[i].sent = args.runs

(* C4 witness: all the runs of a model were issued although only some of   *)
(* them gave a sample.                                                     *)
C4_Witness ==
    \E i \in Tasks :
        /\ WarmupReturned(i)
        /\ futures[i].pc = "sleep"
        /\ args.runs = MaxRuns
        /\ obs[i].sent = MaxRuns
        /\ obs[i].valid = 1

(* The stored result c (in hundredths) is the mean n/d of the samples to   *)
(* the nearest hundredth; it is the mean exactly.                          *)
NearestHundredth(c, q) == 2 * Abs(c * q[2] - 100 * q[1]) <= q[2]

ExactHundredths(c, q) == c * q[2] = 100 * q[1]

(* The model of task i is finished and its warm-up had succeeded. *)
Measured(i) == WarmupReturned(i) /\ futures[i].pc = "sleep"

(* C5, as amended: for a pair whose warm-up succeeded the result is        *)
(* "Failed" exactly when no run gave a valid sample, and otherwise it is a *)
(* number: the arithmetic mean of the valid samples rounded to two         *)
(* decimal places.                                                         *)
C5_FailedIffNoSampleElseRoundedMean ==
    \A i \in Tasks :
        Measured(i) =>
            /\ Len(futures[i].samples) = obs[i].valid
            /\ CurrentResult(i) = Failed <=> obs[i].valid = 0
            /\ obs[i].valid > 0 =>
                  /\ CurrentResult(i).type = "float"
                  /\ NearestHundredth(CurrentResult(i).c,
                                      RMean(futures[i].samples))

(* C5 witness: a number stored from two valid samples whose mean is not a  *)
(* whole number of hundredths.                                             *)
C5_Witness ==
    \E i \in Tasks :
        /\ Measured(i)
        /\ obs[i].valid = 2
        /\ CurrentResult(i).type = "float"
        /\ ~ExactHundredths(CurrentResult(i).c, RMean(futures[i].samples))

(* C5 as stated: the number is equal to the arithmetic mean of the valid   *)
(* samples.                                                                *)
C5_ResultIsExactMean ==
    \A i \in Tasks :
        Measured(i) =>
            /\ CurrentResult(i) = Failed <=> obs[i].valid = 0
            /\ obs[i].valid > 0 =>
                  /\ CurrentResult(i).type = "float"
                  /\ ExactHundredths(CurrentResult(i).c,
                                     RMean(futures[i].samples))

(* C6: a task has slept one full cooldown after each model it finished,    *)
(* whatever the model's result, before the first request of the next.     *)
C6_CooldownAfterEveryModel ==
    \A i \in Tasks :
        /\ futures[i].pc \in {"loop", "returned"} =>
              obs[i].slept = futures[i].k
        /\ futures[i].pc \in {"warmup", "measure", "run", "sleep"} =>
              obs[i].slept = futures[i].k - 1

(* C6 witness: the warm-up of a second model is in flight, after a first   *)
(* model that ended "Failed (Warmup)" and one cooldown.                    *)
C6_Witness ==
    \E r \in inflight :
        /\ r.kind = "warmup"
        /\ futures[r.task].k = 2
        /\ futures[r.task].results[1][2] = FailedWarmup
        /\ obs[r.task].slept = 1

(* The numeric entries of the result, and the best value of a model. *)
NumericEntries(st) == {e \in StatsEntries(st) : e[3].type = "float"}

(* C7: the routing table is ordered by model ascending and, within a       *)
(* model, by throughput descending; the first entry of each model has the  *)
(* greatest throughput measured for that model.                            *)
C7_RoutingOrder ==
    stage = "done" =>
        /\ \A i, j \in 1..Len(df) :
              i < j =>
                /\ ModelRank(df[i].model) <= ModelRank(df[j].model)
                /\ df[i].model = df[j].model => df[i].tps >= df[j].tps
        /\ \A e \in NumericEntries(stats) :
              \E i \in 1..Len(df) :
                /\ df[i].model = e[2]
                /\ \A j \in 1..(i - 1) : df[j].model # e[2]
                /\ df[i].tps >= e[3].c

(* C7 witness: a table the sort had to reorder, with two hosts of          *)
(* different throughput for one model and a second model.                  *)
C7_Witness ==
    /\ stage = "done"
    /\ Len(df) = 3
    /\ df # Rows(stats)
    /\ \E i \in 1..2 : df[i].model = df[i + 1].model /\ df[i].tps > df[i + 1].tps
    /\ df[1].model # df[3].model

(* The pair a row stands for. *)
RowPair(row) == <<row.ip[2], row.model>>

(* C8: the routing table holds exactly one entry for each pair whose value *)
(* is a number, with that number, and none for a failure marker; it is     *)
(* empty when every pair failed.                                           *)
C8_RowsAreTheNumericPairs ==
    stage = "done" =>
        /\ {<<RowPair(df[i])[1], RowPair(df[i])[2], df[i].tps>> :
              i \in 1..Len(df)}
             = {<<e[1], e[2], e[3].c>> : e \in NumericEntries(stats)}
        /\ Len(df) = Cardinality(NumericEntries(stats))
        /\ \A i \in 1..Len(df) :
              /\ df[i].route = <<"ollama/", df[i].model>>
              /\ df[i].ip = <<"http://", RowPair(df[i])[1], ":11434">>
        /\ (\A e \in StatsEntries(stats) : IsMarker(e[3])) => df = <<>>

(* C8 witness: a result with both failure markers and a number, and a      *)
(* table of one row.                                                       *)
C8_Witness ==
    /\ stage = "done"
    /\ Len(df) = 1
    /\ {Failed, FailedWarmup} \subseteq {e[3] : e \in StatsEntries(stats)}


-----------------------------------------------------------------------------
(***************************************************************************)
(* Discovery and inventory: findActiveHosts and mapNetwork, as main calls  *)
(* them (lines 219-228).                                                   *)
(***************************************************************************)
(* The addresses getTailscaleIps can return: list(set), so no duplicates. *)
Addresses == Hosts \cup {"100.64.0.3"}

CandidateLists == {l \in SeqsUpTo(Addresses, Cardinality(Addresses)) : NoDup(l)}

(* Python's None and a returned address. *)
None == [none |-> TRUE, ip |-> ""]

Some(ip) == [none |-> FALSE, ip |-> ip]

(* Lines 88, 113: the truth value of None, of a string and of a list. *)
Truthy(v) == ~v.none /\ v.ip # ""

(* What the connect attempt of line 68 can do: connect_ex returns 0 or an  *)
(* error number (11 timed out, 111 refused), or the socket calls raise.    *)
Connects ==
    {[raised |-> FALSE, errno |-> 0], [raised |-> FALSE, errno |-> 11],
     [raised |-> FALSE, errno |-> 111], [raised |-> TRUE, errno |-> 0]}

(* Lines 63-72. *)
checkOllamaPortIgnoringErrno(ip, conn) ==
    IF ~conn.raised THEN Some(ip) ELSE None

checkOllamaPort(ip, conn) ==
    IF ~conn.raised /\ conn.errno = 0 THEN Some(ip) ELSE None

(* What the GET of line 97 can do: raise, or return a status and a body    *)
(* that is JSON or not, with or without the key 'models', whose entries    *)
(* carry a 'name' or not.                                                  *)
Listing(kind, status, json, hasModels, models) ==
    [kind |-> kind, status |-> status, json |-> json,
     hasModels |-> hasModels, models |-> models]

Entry(name) == [named |-> TRUE, name |-> name]

Nameless == [named |-> FALSE, name |-> ""]

Listings ==
    { Listing("Timeout", 0, FALSE, FALSE, <<>>),
      Listing("http", 404, TRUE, TRUE, <<Entry("llama3")>>),
      Listing("http", 200, FALSE, FALSE, <<>>),
      Listing("http", 200, TRUE, FALSE, <<>>),
      Listing("http", 200, TRUE, TRUE, <<>>),
      Listing("http", 200, TRUE, TRUE, <<Entry("phi3"), Nameless>>),
      Listing("http", 200, TRUE, TRUE, <<Entry("llama3")>>),
      Listing("http", 200, TRUE, TRUE, <<Entry("phi3"), Entry("llama3")>>) }

(* Line 98: raise_for_status raises on a 4xx or 5xx status. *)
RaisesForStatus(status) == status >= 400 /\ status < 600

(* Lines 94-101: the model list getModelsOnHost returns with the ip. *)
getModelsOnHost(lst) ==
    IF lst.kind # "http" THEN <<>>
    ELSE IF RaisesForStatus(lst.status) THEN <<>>
    ELSE IF ~lst.json THEN <<>>
    ELSE IF ~lst.hasModels THEN <<>>
    ELSE IF \E j \in 1..Len(lst.models) : ~lst.models[j].named THEN <<>>
    ELSE [j \in 1..Len(lst.models) |-> lst.models[j].name]

(* Line 113: if models. *)
KeepsAnyHost(models) == TRUE

KeepsHost(models) == models # <<>>

(* Lines 85-86: one probe per candidate.  `conn` is what was seen of the   *)
(* probe's connect attempt.                                                *)
NewProbe(ip) ==
    [ip |-> ip, state |-> "PENDING", result |-> None, yielded |-> FALSE,
     conn |-> [raised |-> FALSE, errno |-> -1]]

(* Lines 78-86: findActiveHosts gets the candidates and submits the        *)
(* probes; with no candidate it returns [] and main exits (lines 82-83,    *)
(* 220-222).                                                               *)
SubmitProbes ==
    /\ stage = "start"
    /\ ~interrupted
    /\ activeHosts' = <<>>
    /\ IF candidates = <<>>
       THEN /\ hosts' = <<>>
            /\ stage' = "exit1"
            /\ UNCHANGED probeFutures
       ELSE /\ probeFutures' = [i \in 1..Len(candidates) |-> NewProbe(candidates[i])]
            /\ stage' = "probe"
            /\ UNCHANGED hosts
    /\ UNCHANGED <<args, inventory, candidates, tagFutures, benchVars,
                   mainVars>>

(* Lines 63-72: a probe runs to its end. *)
ProbeReturns(i, conn) ==
    /\ stage = "probe"
    /\ probeFutures[i].state = "PENDING"
    /\ probeFutures' = [probeFutures EXCEPT
           ![i].state = "FINISHED",
           ![i].result = checkOllamaPort(probeFutures[i].ip, conn),
           ![i].conn = conn]
    /\ UNCHANGED <<args, stage, inventory, candidates, activeHosts, hosts,
                   tagFutures, benchVars,
                   mainVars>>

(* Lines 87-89: as_completed yields a finished probe. *)
CollectProbe(i) ==
    /\ stage = "probe"
    /\ ~interrupted
    /\ probeFutures[i].state = "FINISHED"
    /\ ~probeFutures[i].yielded
    /\ probeFutures' = [probeFutures EXCEPT ![i].yielded = TRUE]
    /\ activeHosts' = IF Truthy(probeFutures[i].result)
                      THEN Append(activeHosts, probeFutures[i].result.ip)
                      ELSE activeHosts
    /\ UNCHANGED <<args, stage, inventory, candidates, hosts, tagFutures,
                   benchVars, mainVars>>

(* A listing task, with what was seen of its GET. *)
NewListing(ip) ==
    [ip |-> ip, state |-> "PENDING", result |-> <<>>, yielded |-> FALSE,
     seen |-> Listing("none", 0, FALSE, FALSE, <<>>)]

(* Lines 90, 219-222, 107-110: findActiveHosts returns; without a host     *)
(* main exits, else mapNetwork submits one listing per host.               *)
ReturnHosts ==
    /\ stage = "probe"
    /\ ~interrupted
    /\ \A i \in 1..Len(probeFutures) : probeFutures[i].yielded
    /\ hosts' = activeHosts
    /\ IF activeHosts = <<>>
       THEN /\ stage' = "exit1"
            /\ UNCHANGED <<inventory, tagFutures>>
       ELSE /\ stage' = "map"
            /\ inventory' = <<>>
            /\ tagFutures' = [i \in 1..Len(activeHosts) |-> NewListing(activeHosts[i])]
    /\ UNCHANGED <<args, candidates, probeFutures, activeHosts, benchVars,
                   mainVars>>

(* Lines 94-101: a listing task runs to its end. *)
ListingReturns(i, lst) ==
    /\ stage = "map"
    /\ tagFutures[i].state = "PENDING"
    /\ tagFutures' = [tagFutures EXCEPT
           ![i].state = "FINISHED",
           ![i].result = getModelsOnHost(lst),
           ![i].seen = lst]
    /\ UNCHANGED <<args, stage, inventory, candidates, probeFutures,
                   activeHosts, hosts, benchVars, mainVars>>

(* Lines 111-114: as_completed yields a finished listing. *)
CollectListing(i) ==
    /\ stage = "map"
    /\ ~interrupted
    /\ tagFutures[i].state = "FINISHED"
    /\ ~tagFutures[i].yielded
    /\ tagFutures' = [tagFutures EXCEPT ![i].yielded = TRUE]
    /\ inventory' = IF KeepsHost(tagFutures[i].result)
                    THEN DictSet(inventory, tagFutures[i].ip, tagFutures[i].result)
                    ELSE inventory
    /\ UNCHANGED <<args, stage, candidates, probeFutures, activeHosts, hosts,
                   benchVars, mainVars>>

(* Lines 226-228: with an empty inventory main exits with code 1. *)
AfterInventory(inv) == IF inv = <<>> THEN "exit1" ELSE "inventoried"

(* Lines 115, 225-228: mapNetwork returns; with an empty inventory main    *)
(* exits.                                                                  *)
ReturnInventory ==
    /\ stage = "map"
    /\ ~interrupted
    /\ \A i \in 1..Len(tagFutures) : tagFutures[i].yielded
    /\ stage' = AfterInventory(inventory)
    /\ UNCHANGED <<args, inventory, discVars, benchVars, mainVars>>

InitDiscovery ==
    /\ args = [runs |-> MaxRuns, workers |-> 2]
    /\ stage = "start"
    /\ tailscale = NoQuery
    /\ interrupted = FALSE
    /\ files = NoFiles
    /\ candidates \in CandidateLists
    /\ probeFutures = <<>>
    /\ activeHosts = <<>>
    /\ hosts = <<>>
    /\ tagFutures = <<>>
    /\ inventory = <<>>
    /\ futures = <<>>
    /\ inflight = {}
    /\ final_stats = <<>>
    /\ collected = {}
    /\ stats = <<>>
    /\ df = <<>>
    /\ obs = <<>>

NextDiscovery ==
    \/ SubmitProbes
    \/ \E i \in 1..Len(probeFutures), conn \in Connects : ProbeReturns(i, conn)
    \/ \E i \in 1..Len(probeFutures) : CollectProbe(i)
    \/ ReturnHosts
    \/ \E i \in 1..Len(tagFutures), lst \in Listings : ListingReturns(i, lst)
    \/ \E i \in 1..Len(tagFutures) : CollectListing(i)
    \/ ReturnInventory

SpecDiscovery == InitDiscovery /\ [][NextDiscovery]_vars


-----------------------------------------------------------------------------
(***************************************************************************)
(* The claims about discovery and inventory.                               *)
(***************************************************************************)
(* mapNetwork has returned; findActiveHosts has returned. *)
Mapped == stage = "inventoried" \/ (stage = "exit1" /\ hosts # <<>>)

Probed == stage \in {"map", "inventoried", "exit1"}

(* A listing that names at least one model: a 2xx response whose JSON body *)
(* has a non-empty 'models' list of named entries.                         *)
ListsModels(lst) ==
    /\ lst.kind = "http"
    /\ lst.status \in 200..299
    /\ lst.json
    /\ lst.hasModels
    /\ lst.models # <<>>
    /\ \A j \in 1..Len(lst.models) : lst.models[j].named

(* C9: the inventory never maps a host to an empty model list, every key   *)
(* is one of the input hosts, and a host whose listing failed, was not     *)
(* 2xx, was malformed or listed no model is not a key.                     *)
C9_NoEmptyInventoryEntry ==
    /\ \A i \in 1..Len(inventory) :
          /\ inventory[i][2] # <<>>
          /\ inventory[i][1] \in Range(hosts)
    /\ stage = "map" =>
          \A i \in 1..Len(tagFutures) :
              tagFutures[i].state = "FINISHED" /\ ~ListsModels(tagFutures[i].seen)
                  => tagFutures[i].ip \notin DictKeys(inventory)
    /\ Mapped =>
          DictKeys(inventory) =
              {tagFutures[i].ip : i \in {j \in 1..Len(tagFutures) :
                                           ListsModels(tagFutures[j].seen)}}

(* C9 witness: of three hosts one answered 404, one listed no model and    *)
(* one is the only key of the inventory.                                   *)
C9_Witness ==
    /\ stage = "inventoried"
    /\ Len(hosts) = 3
    /\ Len(inventory) = 1
    /\ \E i, j \in 1..Len(tagFutures) :
         /\ tagFutures[i].seen.status = 404
         /\ tagFutures[j].seen.status = 200
         /\ tagFutures[j].seen.hasModels
         /\ tagFutures[j].seen.models = <<>>

(* The connect attempt of probe i succeeded. *)
Connected(i) ==
    /\ probeFutures[i].state = "FINISHED"
    /\ ~probeFutures[i].conn.raised
    /\ probeFutures[i].conn.errno = 0

(* C10: the hosts findActiveHosts returns are candidates; a candidate      *)
(* whose connect attempt failed is absent and one whose connect succeeded  *)
(* is present, in every completion order.                                  *)
C10_ActiveHostsAreTheConnected ==
    /\ Range(activeHosts) \subseteq Range(candidates)
    /\ \A i \in 1..Len(probeFutures) :
          probeFutures[i].state = "FINISHED" /\ ~Connected(i)
              => probeFutures[i].ip \notin Range(activeHosts)
    /\ Probed =>
          /\ Range(hosts) \subseteq Range(candidates)
          /\ Range(hosts) =
                {probeFutures[i].ip : i \in {j \in 1..Len(probeFutures) :
                                               Connected(j)}}

(* C10 witness: of three candidates one timed out and the two others were  *)
(* returned in the reverse of the order they were submitted in.            *)
C10_Witness ==
    /\ Probed
    /\ Len(candidates) = 3
    /\ Len(hosts) = 2
    /\ \E i \in 1..Len(probeFutures) : probeFutures[i].conn.errno = 11
    /\ \E a, b \in 1..3 : a < b /\ hosts = <<candidates[b], candidates[a]>>


-----------------------------------------------------------------------------
(***************************************************************************)
(* More claims about the benchmark stage.                                  *)
(***************************************************************************)
AllFinished == \A i \in Tasks : futures[i].state = "FINISHED"

(* C13, as amended: no task writes the aggregate or another host's slice;  *)
(* a host's slice is merged only after that host's own task has finished   *)
(* (other tasks may still run), and runRobustBenchmarks returns only after *)
(* every task has finished.                                                *)
C13_MergeOfFinishedSlicesOnly ==
    /\ \A i \in Tasks :
          DictKeys(futures[i].results) \subseteq Range(futures[i].mods)
    /\ DictKeys(final_stats) = {futures[i].ip : i \in collected}
    /\ \A i \in collected :
          /\ futures[i].state = "FINISHED"
          /\ DictGet(final_stats, futures[i].ip) = futures[i].results
    /\ Returned => AllFinished

(* C13 witness: one host's slice is merged while the other host still has  *)
(* a request in flight.                                                    *)
C13_Witness ==
    /\ Len(final_stats) = 1
    /\ \E i \in Tasks :
         /\ futures[i].state = "RUNNING"
         /\ \E r \in inflight : r.task = i

(* C13 as stated: the merge happens only after all per-host tasks have     *)
(* completed.                                                              *)
C13_MergeAfterAllTasks == final_stats # <<>> => AllFinished

(* C14: at every moment the number of hosts with a benchmark task in       *)
(* progress is at most args.workers.                                       *)
C14_AtMostWorkersRunning == Cardinality(Running) <= args.workers

(* C14 witness: with a ceiling of one and two hosts, the second host's     *)
(* task runs, the first one's having finished.                             *)
C14_Witness ==
    /\ args.workers = 1
    /\ Len(futures) = 2
    /\ futures[1].state = "FINISHED"
    /\ futures[2].state = "RUNNING"

(* C16: every sample collected is a strictly positive tokens-per-second    *)
(* value, whatever non-negative eval_count the response reports.           *)
C16_SamplesPositive ==
    \A i \in Tasks :
        \A j \in 1..Len(futures[i].samples) : futures[i].samples[j][1] > 0

(* The warm-up of the model task i is on returned a response whose status  *)
(* is not a success.                                                       *)
WarmupReturnedError(i) == WarmupReturned(i) /\ obs[i].status # 200

(* C20: a warm-up that returns a non-success status without raising is no  *)
(* warm-up failure: all `runs` measured requests are issued and the pair   *)
(* is not marked "Failed (Warmup)", which only an exception yields.        *)
C20_ErrorStatusWarmupIsNoFailure ==
    \A i \in Tasks :
        /\ WarmupReturnedError(i) =>
              /\ futures[i].pc \in {"measure", "run", "sleep"}
              /\ futures[i].pc = "sleep" =>
                    /\ obs[i].sent = args.runs
                    /\ CurrentResult(i) # FailedWarmup
        /\ (futures[i].pc = "sleep" /\ CurrentResult(i) = FailedWarmup)
              => WarmupRaised(i)

(* C20 witness: after a warm-up answered with status 500 all the runs were *)
(* issued and a number was stored.                                         *)
C20_Witness ==
    \E i \in Tasks :
        /\ obs[i].status = 500
        /\ futures[i].pc = "sleep"
        /\ obs[i].sent = MaxRuns
        /\ CurrentResult(i).type = "float"

(* Every result host i's task stored is a failure marker.                   *)
AllFailed(i) ==
    /\ futures[i].results # <<>>
    /\ \A e \in 1..Len(futures[i].results) : IsMarker(futures[i].results[e][2])

(* C18: when every request eventually returns or times out,                *)
(* runRobustBenchmarks eventually returns with every host's task           *)
(* completed, whatever failures the hosts' requests meet.                  *)
C18_EventuallyReturns == <>(Returned /\ AllFinished)

(* C18 witness: runRobustBenchmarks has returned with two hosts' tasks     *)
(* completed: one host had every request fail, the other got a number.     *)
C18_Witness ==
    /\ Returned
    /\ AllFinished
    /\ \E i, j \in Tasks :
         /\ AllFailed(i)
         /\ \E e \in 1..Len(futures[j].results) :
               futures[j].results[e][2].type = "float"

-----------------------------------------------------------------------------
(***************************************************************************)
(* getTailscaleIps (lines 40-59).                                          *)
(*                                                                         *)
(* What `tailscale status --json` can give: subprocess.run raises (the     *)
(* tool is absent, or another OSError), or it returns an exit status and a *)
(* stdout that parses as JSON or not.  The parsed status is the list of    *)
(* its nodes, Self first then the peers; a node holds its "TailscaleIPs",  *)
(* a list of addresses or null.                                            *)
(***************************************************************************)
TailscaleAddresses ==
    {"100.64.0.1", "100.64.0.2", "fd7a:115c:a1e0::2", "192.168.1.5"}

(* Line 52: ":" in ip, and ip.startswith("100."). *)
HasColon(ip) == ip \in {"fd7a:115c:a1e0::2"}

StartsWith100(ip) == ip \in {"100.64.0.1", "100.64.0.2"}

Node(ips) == [null |-> FALSE, ips |-> ips]

NullNode == [null |-> TRUE, ips |-> <<>>]

NodeKinds ==
    { Node(<<>>),
      Node(<<"100.64.0.1">>),
      Node(<<"100.64.0.2", "fd7a:115c:a1e0::2">>),
      Node(<<"192.168.1.5">>),
      NullNode }

QueryRaises(exc) ==
    [kind |-> "raise", exc |-> exc, returncode |-> 0, json |-> FALSE,
     nodes |-> <<>>]

QueryExits(returncode, json, nodes) ==
    [kind |-> "exit", exc |-> "", returncode |-> returncode, json |-> json,
     nodes |-> nodes]

Queries ==
    {QueryRaises("FileNotFoundError"), QueryRaises("PermissionError"),
     QueryExits(1, FALSE, <<>>), QueryExits(0, FALSE, <<>>)}
    \cup {QueryExits(0, TRUE, ns) : ns \in SeqsUpTo(NodeKinds, MaxNodes) \ {<<>>}}

(* Lines 50-53: the node's addresses that are IPv4 and start with "100.". *)
ValidIps(node) ==
    {ip \in Range(node.ips) : ~HasColon(ip) /\ StartsWith100(ip)}

(* Line 59: list(ips), in the order the set happens to iterate. *)
Orderings(S) ==
    {s \in [1..Cardinality(S) -> S] : NoDup(s)}

(* Lines 44-48: run the command; a nonzero exit status skips the parsing.  *)
RunQuery ==
    /\ tailscale.pc = "call"
    /\ LET q == tailscale.query
       IN  tailscale' =
             IF q.kind = "raise"
             THEN [tailscale EXCEPT !.pc = "except", !.error = q.exc]
             ELSE IF q.returncode # 0
             THEN [tailscale EXCEPT !.pc = "return"]
             ELSE IF ~q.json
             THEN [tailscale EXCEPT !.pc = "except",
                                    !.error = "JSONDecodeError"]
             ELSE [tailscale EXCEPT !.pc = "loop"]
    /\ UNCHANGED <<args, stage, inventory, discVars, benchVars, interrupted,
                   files>>

(* Lines 49-54: one turn of the loop; iterating a null "TailscaleIPs"      *)
(* raises TypeError, and `ips` keeps what earlier turns added.             *)
NextNode ==
    /\ tailscale.pc = "loop"
    /\ tailscale.n < Len(tailscale.query.nodes)
    /\ LET node == tailscale.query.nodes[tailscale.n + 1]
       IN  tailscale' =
             IF node.null
             THEN [tailscale EXCEPT !.pc = "except", !.error = "TypeError"]
             ELSE [tailscale EXCEPT !.ips = @ \cup ValidIps(node),
                                    !.n = @ + 1]
    /\ UNCHANGED <<args, stage, inventory, discVars, benchVars, interrupted,
                   files>>

EndOfNodes ==
    /\ tailscale.pc = "loop"
    /\ tailscale.n = Len(tailscale.query.nodes)
    /\ tailscale' = [tailscale EXCEPT !.pc = "return"]
    /\ UNCHANGED <<args, stage, inventory, discVars, benchVars, interrupted,
                   files>>

(* Lines 55-58: either handler prints and falls through to the return. *)
QueryExcept ==
    /\ tailscale.pc = "except"
    /\ tailscale' = [tailscale EXCEPT !.pc = "return"]
    /\ UNCHANGED <<args, stage, inventory, discVars, benchVars, interrupted,
                   files>>

(* Line 59, and line 79 where findActiveHosts takes the value. *)
ReturnIps ==
    /\ tailscale.pc = "return"
    /\ stage = "resolve"
    /\ \E c \in Orderings(tailscale.ips) : candidates' = c
    /\ tailscale' = [tailscale EXCEPT !.pc = "done"]
    /\ stage' = "start"
    /\ UNCHANGED <<args, inventory, probeFutures, activeHosts, hosts,
                   tagFutures, benchVars, interrupted, files>>

InitTailscale ==
    /\ args = [runs |-> MaxRuns, workers |-> 2]
    /\ stage = "resolve"
    /\ tailscale \in {[NoQuery EXCEPT !.pc = "call", !.query = q] :
                        q \in Queries}
    /\ interrupted = FALSE
    /\ files = NoFiles
    /\ candidates = <<>>
    /\ probeFutures = <<>>
    /\ activeHosts = <<>>
    /\ hosts = <<>>
    /\ tagFutures = <<>>
    /\ inventory = <<>>
    /\ futures = <<>>
    /\ inflight = {}
    /\ final_stats = <<>>
    /\ stats = <<>>
    /\ collected = {}
    /\ df = <<>>
    /\ obs = <<>>

NextTailscale ==
    \/ RunQuery
    \/ NextNode
    \/ EndOfNodes
    \/ QueryExcept
    \/ ReturnIps

SpecTailscale == InitTailscale /\ [][NextTailscale]_vars

(* The query failed: the command could not be run or exited with a nonzero *)
(* status, or an error was raised while its output was parsed.             *)
QueryFailed ==
    \/ tailscale.error # "none"
    \/ tailscale.query.kind = "exit" /\ tailscale.query.returncode # 0

(* C15: when the membership query fails in any way, getTailscaleIps        *)
(* returns an empty collection: no address collected before the error is   *)
(* returned.                                                               *)
C15_FailedQueryReturnsNothing ==
    (tailscale.pc = "done" /\ QueryFailed) => candidates = <<>>

-----------------------------------------------------------------------------
(***************************************************************************)
(* main and the __main__ guard (lines 214-269): discovery, inventory, the  *)
(* proxy config, the benchmarks, the routing table and the exit code.      *)
(* Here args also says whether an output path and a proxy path were given. *)
(***************************************************************************)
(* Line 241. *)
ShouldBenchmarkUnlessProxy(a) == ~a.proxy

ShouldBenchmark(a) == a.output \/ (~a.output /\ ~a.proxy)

(* Lines 201-210: one target per inventory host that has models; the JSON  *)
(* text is modelled by the value it encodes, the URL by its three parts.   *)
HasModels(entry) == entry[2] # <<>>

Target(entry) ==
    [url |-> <<"http://", entry[1], ":11434">>, models |-> entry[2]]

generateProxyJson(inv) ==
    LET kept == SelectSeq(inv, HasModels)
    IN  [targets |-> [e \in 1..Len(kept) |-> Target(kept[e])]]

(* Lines 249-256: the table is written when it has rows and an output path *)
(* was given.                                                              *)
WritesRoutingWhenAsked(d, output) == output

WritesRouting(d, output) == d # <<>> /\ output

(* Lines 231-236: the proxy config is written when a proxy path was given; *)
(* open() or write() may raise OSError, which nothing catches.             *)
WriteProxy(ok) ==
    /\ stage = "inventoried"
    /\ ~interrupted
    /\ IF ~args.proxy
       THEN /\ stage' = "decide"
            /\ UNCHANGED files
       ELSE IF ok
       THEN /\ stage' = "decide"
            /\ files' = [files EXCEPT !.proxy = <<generateProxyJson(inventory)>>]
       ELSE /\ stage' = "crashed"
            /\ UNCHANGED files
    /\ UNCHANGED <<args, inventory, discVars, benchVars, tailscale,
                   interrupted>>

(* Lines 241-243, 258-260: benchmark, or return in proxy-only mode. *)
Decide ==
    /\ stage = "decide"
    /\ ~interrupted
    /\ stage' = IF ShouldBenchmark(args) THEN "bench" ELSE "exit0"
    /\ UNCHANGED <<args, inventory, discVars, benchVars, mainVars>>

(* Lines 249-260: print the table or the "no successful results" line,     *)
(* write the CSV when asked (to_csv may raise OSError), and return.        *)
Report(ok) ==
    /\ stage = "done"
    /\ ~interrupted
    /\ IF ~WritesRouting(df, args.output)
       THEN /\ stage' = "exit0"
            /\ UNCHANGED files
       ELSE IF ok
       THEN /\ stage' = "exit0"
            /\ files' = [files EXCEPT !.routing = <<df>>]
       ELSE /\ stage' = "crashed"
            /\ UNCHANGED files
    /\ UNCHANGED <<args, inventory, discVars, benchVars, tailscale,
                   interrupted>>

Exited == stage \in {"exit0", "exit1", "aborted", "crashed"}

(* Lines 222, 228: sys.exit(1); line 269: sys.exit(0); an uncaught         *)
(* exception ends the interpreter with status 1; -1 while main runs.       *)
ExitCode ==
    IF stage \in {"exit1", "crashed"} THEN 1
    ELSE IF stage \in {"exit0", "aborted"} THEN 0
    ELSE -1

(* The user presses Ctrl-C: KeyboardInterrupt is raised in the main        *)
(* thread, wherever it stands.                                             *)
Interrupt ==
    /\ ~Exited
    /\ ~interrupted
    /\ interrupted' = TRUE
    /\ UNCHANGED <<args, stage, inventory, discVars, benchVars, tailscale,
                   files>>

(* Lines 84, 108, 170: the exception leaves the `with` block of the pool   *)
(* main stands in, whose __exit__ is shutdown(wait=True): it returns once  *)
(* every submitted task, queued ones included, has run to its end.         *)
PoolDrained ==
    /\ stage = "probe" =>
          \A i \in 1..Len(probeFutures) : probeFutures[i].state = "FINISHED"
    /\ stage = "map" =>
          \A i \in 1..Len(tagFutures) : tagFutures[i].state = "FINISHED"
    /\ stage = "collect" =>
          \A i \in 1..Len(futures) : futures[i].state = "FINISHED"

(* Lines 267-269: the handler prints and exits with status 0. *)
Abort ==
    /\ ~Exited
    /\ interrupted
    /\ PoolDrained
    /\ stage' = "aborted"
    /\ UNCHANGED <<args, inventory, discVars, benchVars, mainVars>>

(* The inputs of a whole run: the candidates in HostOrder order, each      *)
(* connect accepted or refused, each listing failing or naming one or two  *)
(* models, each generation request timing out or reporting 10 tokens.      *)
MainCandidates == {SubSeq(HostOrder, 1, n) : n \in 0..Len(HostOrder)}

MainConnects == {c \in Connects : ~c.raised /\ c.errno \in {0, 111}}

MainListings ==
    {l \in Listings : l.kind = "Timeout"
                        \/ (l.status = 200 /\ l.models # <<>>
                              /\ \A e \in 1..Len(l.models) : l.models[e].named)}

MainResponses ==
    {r \in Responses : r.kind = "Timeout"
                         \/ (r.keys = BothKeys /\ r.eval_count > 0
                               /\ r.eval_duration > 0)}

InitMain ==
    /\ args \in [runs : {MaxMainRuns}, workers : WorkerChoices,
                 output : BOOLEAN, proxy : BOOLEAN]
    /\ stage = "start"
    /\ tailscale = NoQuery
    /\ interrupted = FALSE
    /\ files = NoFiles
    /\ candidates \in MainCandidates
    /\ probeFutures = <<>>
    /\ activeHosts = <<>>
    /\ hosts = <<>>
    /\ tagFutures = <<>>
    /\ inventory = <<>>
    /\ futures = <<>>
    /\ inflight = {}
    /\ final_stats = <<>>
    /\ collected = {}
    /\ stats = <<>>
    /\ df = <<>>
    /\ obs = <<>>

NextMain ==
    \/ SubmitProbes
    \/ \E i \in 1..Len(probeFutures), conn \in MainConnects :
          ProbeReturns(i, conn)
    \/ \E i \in 1..Len(probeFutures) : CollectProbe(i)
    \/ ReturnHosts
    \/ \E i \in 1..Len(tagFutures), lst \in MainListings :
          ListingReturns(i, lst)
    \/ \E i \in 1..Len(tagFutures) : CollectListing(i)
    \/ ReturnInventory
    \/ \E ok \in BOOLEAN : WriteProxy(ok)
    \/ Decide
    \/ Submit
    \/ \E i \in 1..Len(futures) : StartTask(i)
    \/ \E i \in 1..Len(futures) : SendWarmup(i)
    \/ \E i \in 1..Len(futures), resp \in MainResponses : WarmupReturns(i, resp)
    \/ \E i \in 1..Len(futures) : SendRun(i)
    \/ \E i \in 1..Len(futures), resp \in MainResponses : RunReturns(i, resp)
    \/ \E i \in 1..Len(futures) : StoreResult(i)
    \/ \E i \in 1..Len(futures) : Cooldown(i)
    \/ \E i \in 1..Len(futures) : TaskReturns(i)
    \/ \E i \in 1..Len(futures) : Collect(i)
    \/ ReturnStats
    \/ GenerateRouting
    \/ \E ok \in BOOLEAN : Report(ok)
    \/ Interrupt
    \/ Abort

SpecMain == InitMain /\ [][NextMain]_vars

-----------------------------------------------------------------------------
(***************************************************************************)
(* Claims about main.                                                      *)
(***************************************************************************)
(* Discovery or inventory came back empty in a run nobody interrupted. *)
NothingFound == ~interrupted /\ (hosts = <<>> \/ inventory = <<>>)

(* C11: the exit code is 1 exactly when no active host was found or the    *)
(* inventory is empty, and then no file was written and no benchmark       *)
(* request issued; every other way the run ends gives exit code 0.         *)
C11_ExitCodeOneExactlyWhenNothingFound ==
    Exited =>
       /\ ExitCode = 1 <=> NothingFound
       /\ ExitCode = 1 => files = NoFiles /\ futures = <<>> /\ inflight = {}
       /\ ExitCode # 1 => ExitCode = 0

(* C12: once the interrupt has arrived during the benchmark stage, no      *)
(* further warm-up or measured request is started on any host.             *)
C12_NoRequestStartsAfterInterrupt ==
    [][(interrupted /\ stage = "collect") => inflight' \subseteq inflight]_vars

(* The benchmark stage ran to its end and main returned. *)
BenchmarksReported == stage = "exit0" /\ futures # <<>>

(* C17, as amended: when an output path is requested and the benchmark     *)
(* stage runs to completion, the routing table file is written exactly     *)
(* when some pair has a numeric result, and holds the routing table.       *)
C17_RoutingWrittenIffNumericResult ==
    /\ (BenchmarksReported /\ args.output) =>
          files.routing = IF NumericEntries(stats) # {} THEN <<df>> ELSE <<>>
    /\ files.routing # <<>> => args.output /\ files.routing[1] # <<>>

(* C17 witness: an output path was requested, every pair failed, and main  *)
(* returned without writing a routing table.                               *)
C17_Witness ==
    /\ BenchmarksReported
    /\ args.output
    /\ stats # <<>>
    /\ NumericEntries(stats) = {}
    /\ files.routing = <<>>

(* C17 as stated: when an output path is requested and the benchmark       *)
(* stage runs to completion, a routing table file is written.              *)
C17_RoutingWrittenWhenRequested ==
    (BenchmarksReported /\ args.output) => files.routing # <<>>

(* The benchmark stage was entered. *)
BenchmarkStage == stage = "bench" \/ futures # <<>>

ProxyOnly == args.proxy /\ ~args.output

(* C19: with a non-empty inventory the benchmark stage is skipped exactly  *)
(* in proxy-only mode, and when a proxy path is given the proxy config,    *)
(* one target per inventory host with its full model list, is written      *)
(* before the first benchmark request.                                     *)
C19_SkippedIffProxyOnlyAndProxyFirst ==
    /\ BenchmarkStage => ~ProxyOnly
    /\ (stage = "exit0" /\ ~BenchmarkStage) => ProxyOnly
    /\ (args.proxy /\ BenchmarkStage) =>
          /\ files.proxy = <<generateProxyJson(inventory)>>
          /\ Len(files.proxy[1].targets) = Len(inventory)
          /\ \A e \in 1..Len(inventory) :
                /\ files.proxy[1].targets[e].url[2] = inventory[e][1]
                /\ files.proxy[1].targets[e].models = inventory[e][2]
    /\ ~args.proxy => files.proxy = <<>>

(* C19 witness: with both paths given the proxy config is on disk while a  *)
(* benchmark request is in flight.                                         *)
C19_Witness ==
    /\ args.proxy
    /\ args.output
    /\ inflight # {}
    /\ files.proxy # <<>>

=============================================================================
